---- MODULE Spec2Model ----
(***************************************************************************)
(* A model of the pyddup deduplication pipeline: main's logger update and  *)
(* pre-flight validations, its choice of the pipeline,                     *)
(* deduplication_pipeline (worker pool) and deduplication_pipeline_single, *)
(* collector, archiver with its ZipArchiver objects, the slack reader and  *)
(* the SQLite3DataStore with its uniques query and its batched commits.    *)
(*                                                                         *)
(* Specifications: Spec (a run of a pipeline), SpecMain (main from the     *)
(* loaded configuration on), SpecStore (store_entry calls, then uniques),  *)
(* SpecAlias (the archive alias of a stored path), SpecConc (collectors    *)
(* interleaved inside store_entry), SpecArchiver (calls on one             *)
(* FileArchiver object), SpecDs (calls on one SQLite3DataStore), SpecHash  *)
(* (calculate_file_hashes with two chunk sizes), SpecPool and FairSpecPool *)
(* (the worker-pool pipeline with more devices than workers, the second    *)
(* with scheduled threads), SpecZero (a run hashing with chunk size 0).    *)
(*                                                                         *)
(* Bytes are naturals below 256.  Paths, file contents, digests and slack  *)
(* are sequences of bytes.  A digest algorithm is idealised as collision   *)
(* free: the digest of the bytes b under algorithm a is <<a>> \o b.        *)
(***************************************************************************)
EXTENDS Integers, Sequences, FiniteSets, Bags, TLC

(* ------------------------------ bounds -------------------------------- *)

\* number of configured devices, with the device ids 1..NumDevices
NumDevices == 2
\* number of regular files below each device's mount path
MaxFiles == 2
\* largest value of options.number_threads (1 selects the single pipeline)
MaxThreads == 2
\* largest number of rows the store holds in the store-level specification
MaxRows == 3
\* the cluster size, in bytes, of a device that has one (0 is "no slack")
ClusterBytes == 2
\* largest write_data_threshold of a store whose batching is observed
MaxThreshold == 2
\* number of calls made on an object that is exercised on its own
MaxCalls == 5
\* longest file content, and largest chunk size, a hash call is given
MaxLen == 3

(* ------------------------- program constants -------------------------- *)

\* Options.hash_chunk_size as Options.__init__ sets it
DefaultHashChunkSize == 65536
\* Options.unique_elements_chunk_size as Options.__init__ sets it
DefaultUniqueChunkSize == -1

DeviceIds == 1..NumDevices

\* Python's None for an absent digest, and bytes() for an empty slack
None == <<>>
EmptyBytes == <<>>

(* ------------------------------- paths -------------------------------- *)

\* a < b in the byte-wise (memcmp) order SQLite's BINARY collation uses
RECURSIVE LexLess(_, _)
LexLess(a, b) ==
    IF b = <<>> THEN FALSE
    ELSE IF a = <<>> THEN TRUE
    ELSE IF Head(a) # Head(b) THEN Head(a) < Head(b)
    ELSE LexLess(Tail(a), Tail(b))

\* the smallest path of a non-empty set of paths
MinPath(S) == CHOOSE p \in S : \A q \in S : q = p \/ LexLess(p, q)

\* the paths of S in ascending order (ORDER BY PATH ASC)
RECURSIVE SortAsc(_)
SortAsc(S) ==
    IF S = {} THEN <<>>
    ELSE LET m == MinPath(S) IN <<m>> \o SortAsc(S \ {m})

\* "/<d>": the absolute mount path of device d, path.abspath(remove_quotes(..))
MountPath(d) == <<47, 48 + d>>

(* ---------------------------- file system ----------------------------- *)

\* The directory listing of device d in the order os.walk yields it: one
\* entry that is not a regular file (a FIFO named "s"), then MaxFiles
\* regular files whose names descend, so that the walk order is not the
\* sorted order.  The contents repeat within and across devices.
Listing(d) ==
    <<[path |-> MountPath(d) \o <<47, 115>>, isfile |-> FALSE, content |-> <<>>]>>
    \o [i \in 1..MaxFiles |->
          [path    |-> MountPath(d) \o <<47, 97 + (MaxFiles - i)>>,
           isfile  |-> TRUE,
           content |-> <<104, (d * i) % 2>>]]

\* the bytes of one cluster of the block device behind device d
DiskRead(d, start, size) == [k \in 1..size |-> (d + start + k) % 256]

(* --------------------------- digest engine ---------------------------- *)

\* a hashlib object is <<algorithm>> \o (the bytes fed so far)
NewHash(alg) == <<alg>>

map_options_to_digests(o) ==
    <<IF o.enable_sha1 THEN NewHash(1) ELSE None,
      IF o.enable_sha256 THEN NewHash(256) ELSE None,
      IF o.enable_md5 THEN NewHash(5) ELSE None>>

\* a refresh that hands back the objects it is given
refresh_hash_pool_stale(f) == f

refresh_hash_pool(f) ==
    <<IF f[1] # None THEN NewHash(1) ELSE None,
      IF f[2] # None THEN NewHash(256) ELSE None,
      IF f[3] # None THEN NewHash(5) ELSE None>>

update_hashes(hashes, chunk) ==
    [k \in 1..3 |-> IF hashes[k] # None THEN hashes[k] \o chunk ELSE None]

safe_digest(hash_function) ==
    IF hash_function # None THEN hash_function ELSE None

\* a read that takes the size 0 for "all"
FileReadZeroAll(rest, n) ==
    IF n <= 0 \/ n >= Len(rest) THEN rest ELSE SubSeq(rest, 1, n)

\* file.read(n) on the unread bytes rest: at most n bytes, all of them for
\* a negative n, none for n = 0
FileRead(rest, n) ==
    IF n < 0 \/ n >= Len(rest) THEN rest ELSE SubSeq(rest, 1, n)

RECURSIVE FeedChunks(_, _, _)

\* a loop that ends after its first chunk
FeedChunksOnce(hashes, rest, n) ==
    update_hashes(hashes, FileRead(rest, n))

\* the loop "for chunk in iter(lambda: file.read(n), b'')"
FeedChunks(hashes, rest, n) ==
    LET chunk == FileRead(rest, n) IN
    IF chunk = <<>> THEN hashes
    ELSE FeedChunks(update_hashes(hashes, chunk),
                    SubSeq(rest, Len(chunk) + 1, Len(rest)), n)

calculate_file_hashes(content, hash_functions, read_chunk_size) ==
    LET fed == FeedChunks(hash_functions, content, read_chunk_size) IN
    <<safe_digest(fed[1]), safe_digest(fed[2]), safe_digest(fed[3])>>

(* ---------------------------- slack reader ---------------------------- *)

\* the functor assign_read_file_slack returns on platform p
assign_read_file_slack(p) ==
    IF p = "Windows" THEN "empty"
    ELSE IF p = "Linux" THEN "read_file_slack"
    ELSE "empty"

\* the device loop assign_get_device_loop's functor resolves: the block
\* device of d on Linux, the empty string (0) elsewhere
get_device_loop(p, d) == IF p = "Linux" THEN d ELSE 0

\* read_slack: the cluster at block_space, or bytes() when the device
\* cannot be read (the error is logged)
read_slack(device_loop, block_space, block_size, readable) ==
    IF block_size <= 0 THEN EmptyBytes
    ELSE IF readable THEN DiskRead(device_loop, block_space * block_size, block_size)
    ELSE EmptyBytes

\* read_file_slack, with last_block what get_slack_block returned
read_file_slack(device_loop, last_block, slack_size, readable) ==
    IF slack_size <= 0 THEN EmptyBytes
    ELSE read_slack(device_loop, last_block, slack_size, readable)

\* the call read_file_slack_func(device_loop, absolute_path, slack_size)
CallReadFileSlack(func, device_loop, last_block, slack_size, readable) ==
    IF func = "read_file_slack"
    THEN read_file_slack(device_loop, last_block, slack_size, readable)
    ELSE EmptyBytes

\* whether the call reaches get_slack_block, which may raise
CallsGetSlackBlock(func, slack_size) ==
    func = "read_file_slack" /\ slack_size > 0

(* ----------------------------- entry store ---------------------------- *)

\* SQLite3DataStore.__init__'s normalisation of write_data_threshold
InitThreshold(w) == IF w = 0 THEN 1000 ELSE IF w < 0 THEN -w ELSE w

Entry(sha1, sha256, md5, device_id, file_path, file_slack) ==
    [sha1 |-> sha1, sha256 |-> sha256, md5 |-> md5, deviceid |-> device_id,
     path |-> file_path, fileslack |-> file_slack]

\* a store whose INSERT runs twice
InsertElementTwice(els, row) == els (+) SetToBag({row}) (+) SetToBag({row})

\* INSERT INTO elements: the table is a bag of rows
InsertElement(els, row) == els (+) SetToBag({row})

\* the batching counter after one store_entry
NextDataRunner(st) ==
    IF st.current_data_runner + 1 >= st.write_data_threshold
    THEN st.current_data_runner + 1 - st.write_data_threshold
    ELSE st.current_data_runner + 1

\* the column the view get_unique_elements_all groups on: SHA1, and SHA256
\* for a row without SHA1
GroupKey(r) == IF r.sha1 # None THEN r.sha1 ELSE r.sha256

\* the view get_unique_elements_all: one row per device and group key,
\* carrying the smallest path of the group
get_unique_elements_all(els) ==
    LET rows == BagToSet(els) IN
    { [deviceid |-> r.deviceid, key |-> GroupKey(r),
       path |-> MinPath({q.path : q \in {x \in rows :
                    x.deviceid = r.deviceid /\ GroupKey(x) = GroupKey(r)}})]
      : r \in rows }

\* n copies of <<x>>
RECURSIVE Repeat(_, _)
Repeat(x, n) == IF n = 0 THEN <<>> ELSE <<x>> \o Repeat(x, n - 1)

\* SortAsc, with the path p repeated once per view row that carries it
RECURSIVE Expand(_, _)
Expand(sorted, view) ==
    IF sorted = <<>> THEN <<>>
    ELSE Repeat(<<Head(sorted)>>,
                Cardinality({v \in view : v.path = Head(sorted)}))
         \o Expand(Tail(sorted), view)

\* a sequence back to front
RECURSIVE Reverse(_)
Reverse(s) == IF s = <<>> THEN <<>> ELSE Reverse(Tail(s)) \o <<Head(s)>>

\* the query with its rows in another order than ORDER BY PATH ASC
query_unique_elements_unordered(els, device_id) ==
    CHOOSE result \in
        { Reverse(Expand(SortAsc({v.path : v \in view}), view)) :
            view \in {{v \in get_unique_elements_all(els) : v.deviceid = device_id}} }
        : TRUE

\* SELECT PATH FROM get_unique_elements_all WHERE DEVICEID = ? ORDER BY PATH ASC:
\* the result rows, each a 1-tuple <<path>>
query_unique_elements(els, device_id) ==
    CHOOSE result \in
        { Expand(SortAsc({v.path : v \in view}), view) :
            view \in {{v \in get_unique_elements_all(els) : v.deviceid = device_id}} }
        : TRUE

RECURSIVE FetchLoop(_, _)

\* a fetch loop that stops after its first batch
FetchLoopOnce(cursor, chunk_size) ==
    IF chunk_size <= 0 \/ chunk_size >= Len(cursor)
    THEN cursor ELSE SubSeq(cursor, 1, chunk_size)

\* the fetch loop of get_uniques_for_device: fetchall for chunk_size <= 0,
\* else fetchmany(chunk_size), until a fetch returns no rows
FetchLoop(cursor, chunk_size) ==
    LET result_set == IF chunk_size <= 0 \/ chunk_size >= Len(cursor)
                      THEN cursor ELSE SubSeq(cursor, 1, chunk_size)
    IN IF result_set = <<>> THEN <<>>
       ELSE result_set
            \o FetchLoop(SubSeq(cursor, Len(result_set) + 1, Len(cursor)), chunk_size)

\* everything the generator get_uniques_for_device(device_id, chunk_size) yields
get_uniques_for_device(els, device_id, chunk_size) ==
    CHOOSE yielded \in
        { FetchLoop(cursor, chunk_size) :
            cursor \in {query_unique_elements(els, device_id)} }
        : TRUE

(* ------------------------------- state -------------------------------- *)

VARIABLES
    options,       \* the Options of the run
    platform,      \* platform.system()
    raw_readable,  \* whether this process may open the block devices
    cluster,       \* cluster[d]: the cluster_size of device d
    pc,            \* where main and the pipeline function are
    store,         \* the SQLite3DataStore: connection, batching counter
    elements,      \* the table elements, a bag of rows
    calls,         \* how often the pipeline called open, close and abort, and
                   \* how many store_entry / get_uniques_for_device calls came
                   \* before the open (early) or after the close (late)
    collect_task,  \* per device: the collector call or pool task
    archive_task,  \* per device: the archiver call or pool task
    uniques,       \* the last get_uniques_for_device call made on the store itself
    env,           \* what main finds: the configured objects, archive_location,
                   \* the logger settings, which mount paths exist
    boot,          \* main before the pipeline: the log file it opened and
                   \* the validations it passed or failed
    archivers,     \* the FileArchiver objects: the configured one and the copies
    alias_call,    \* the last alias computed on its own
    db,            \* the SQLite connection: its transaction, the rows on disk
    threads,       \* the collectors calling store_entry step by step
    archiver_obj,  \* a FileArchiver object called on its own
    containers,    \* the containers that object has created, oldest first
    archiver_call, \* the last call on that object and its outcome
    ds_call,       \* the last call on the data store made on its own
    hash_call      \* the last comparison of calculate_file_hashes results

vars == <<options, platform, raw_readable, cluster, pc, store, elements, calls,
          collect_task, archive_task, uniques, env, boot, archivers, alias_call,
          db, threads, archiver_obj, containers, archiver_call, ds_call, hash_call>>

config == <<options, platform, raw_readable, cluster>>

\* what the pipeline functions and their tasks never touch
\* the objects and functions exercised on their own
alone == <<archiver_obj, containers, archiver_call, ds_call, hash_call>>

others == <<env, boot, alias_call, threads, alone>>

Platforms == {"Linux", "Windows", "Darwin"}

\* the configured devices: those with an odd id have a cluster size, the
\* others have the default 0
DeviceClusters == [d \in DeviceIds |-> IF d % 2 = 1 THEN ClusterBytes ELSE 0]

\* Options.__init__, with the digest the generated configuration enables
DefaultOptions ==
    [collect |-> TRUE, create_archive |-> TRUE, number_threads |-> 1,
     store_slack_space |-> FALSE,
     enable_sha1 |-> TRUE, enable_sha256 |-> FALSE, enable_md5 |-> FALSE,
     hash_chunk_size |-> DefaultHashChunkSize,
     unique_elements_chunk_size |-> DefaultUniqueChunkSize]

\* SQLite3DataStore.__init__
NewStore(write_data_threshold) ==
    [db_connection |-> "None", current_data_runner |-> 0,
     write_data_threshold |-> InitThreshold(write_data_threshold),
     create_db |-> FALSE, force_create_db |-> FALSE]

NoCalls == [open |-> 0, close |-> 0, abort |-> 0, early |-> 0, late |-> 0]

\* a collector not yet called.  hashlib_functions: the digest objects it is
\* passed; hash_funcs: the digest objects its local hash_funcs refers to,
\* which are the passed ones (first) until the pool is refreshed
NoCollectTask == [state |-> "none", idx |-> 0, cause |-> "none",
                  hashlib_functions |-> <<None, None, None>>,
                  hash_funcs |-> <<None, None, None>>, first |-> TRUE]
\* the configured archive_service (archsvc) is the object 0; the copy the
\* archiver task of device d makes is the object d
Prototype == 0
\* service: the object the task's archive_service names
NoArchiveTask ==
    [state |-> "none", service |-> Prototype, name |-> None, log |-> <<>>,
     todo |-> <<>>, members |-> <<>>]
NoUniques == [device |-> 0, chunk_size |-> 0, yielded |-> <<>>]

\* what options.archive_location can name
ArchiveLocations == {"unset", "missing", "file", "dir"}

\* a configuration main accepts: a DataStore, a FileArchiver, an existing
\* archive directory, every mount path present, the logger left as it is
ValidEnv ==
    [datastore_valid |-> TRUE, archsvc_valid |-> TRUE,
     archive_location |-> "dir", log_format |-> "None", log_to_file |-> FALSE,
     mounts |-> [d \in DeviceIds |-> TRUE]]

\* the validations of main in the order main runs them
Validations == <<"data_store", "archiver", "options", "devices">>

NoBoot == [log_file |-> "none", validated |-> <<>>, failed |-> "none"]
\* main at the point where it chooses the pipeline
Booted == [NoBoot EXCEPT !.validated = Validations]

\* ZipArchiver.__init__; users: the tasks that called the object
NewArchiver == [zip_file_ptr |-> "None", users |-> {}]

NoAliasCall == [device_path |-> <<>>, device_sourcepath |-> <<>>,
                target_path |-> <<>>, alias |-> <<>>, called |-> FALSE]

\* sqlite3.connect: no transaction, the rows of the database file, and the
\* store's threading.Lock (0: free)
NewDb == [txn |-> "none", disk |-> EmptyBag, lock |-> 0, exists |-> TRUE]

NoThread == [pc |-> "idle", file |-> 0, returned |-> 0]

\* ZipArchiver.__init__ / AFF4Archiver.__init__
NewArchiverObject(kind) == [kind |-> kind, zip_file_ptr |-> "None", aff4root |-> "None"]

NoArchiverCall == [op |-> "none", outcome |-> "none", env_ok |-> TRUE, calls |-> 0,
                   before |-> NewArchiverObject("ZipArchiver"), containers_before |-> <<>>]

NoSnapshot == [store |-> NewStore(1000), db |-> NewDb, elements |-> EmptyBag]
NoDsCall == [op |-> "none", outcome |-> "none", calls |-> 0, before |-> NoSnapshot,
             flushed |-> EmptyBag, pending |-> EmptyBag]

NoHashCall == [content |-> <<>>, c1 |-> 0, c2 |-> 0, digests1 |-> <<>>, digests2 |-> <<>>,
               called |-> FALSE]

\* nothing has been called on its own
AloneIdle ==
    /\ archiver_obj = NewArchiverObject("ZipArchiver")
    /\ containers = <<>>
    /\ archiver_call = NoArchiverCall
    /\ ds_call = NoDsCall
    /\ hash_call = NoHashCall

Init ==
    /\ options \in {[DefaultOptions EXCEPT !.collect = c, !.create_archive = a,
                        !.number_threads = n, !.store_slack_space = s] :
                    c \in BOOLEAN, a \in BOOLEAN, n \in 1..MaxThreads, s \in BOOLEAN}
    /\ platform \in Platforms
    /\ raw_readable \in IF platform = "Linux" THEN BOOLEAN ELSE {TRUE}
    /\ cluster = DeviceClusters
    /\ pc = "main"
    /\ store = NewStore(1000)
    /\ elements = EmptyBag
    /\ calls = NoCalls
    /\ collect_task = [d \in DeviceIds |-> NoCollectTask]
    /\ archive_task = [d \in DeviceIds |-> NoArchiveTask]
    /\ uniques = NoUniques
    /\ env = ValidEnv
    /\ boot = Booted
    /\ archivers = (Prototype :> NewArchiver)
    /\ alias_call = NoAliasCall
    /\ db = NewDb
    /\ threads = [d \in DeviceIds |-> NoThread]
    /\ AloneIdle

(* ------------------------ store calls of a run ------------------------ *)

\* a store_entry or get_uniques_for_device call, counted against the open
\* and the close of the run
RecordUse(c) ==
    IF c.open = 0 THEN [c EXCEPT !.early = @ + 1]
    ELSE IF c.close > 0 \/ c.abort > 0 THEN [c EXCEPT !.late = @ + 1]
    ELSE c

\* SQLite3DataStore.store_entry on an open store
store_entry(st, els, row) ==
    [store |-> [st EXCEPT !.current_data_runner = NextDataRunner(st)],
     elements |-> InsertElement(els, row)]

\* a commit that writes nothing
ConnCommitNothing(conn, els) == [conn EXCEPT !.txn = "none"]

\* db_connection.commit(): the rows the connection holds are on disk and
\* the transaction is over
ConnCommit(conn, els) == [conn EXCEPT !.txn = "none", !.disk = els]

\* db_connection.execute("BEGIN TRANSACTION")
ConnBegin(conn) == [conn EXCEPT !.txn = "active"]

(* ----------------------------- coordinator ---------------------------- *)

Single == options.number_threads = 1

\* the process runs: main has neither returned nor been unwound by an
\* exception (the pool's workers are daemon threads and end with it)
ProcessAlive == pc \notin {"finished", "crashed", "exited"}

\* main chose its pipeline, and the pipeline calls data_store.open()
PipelineOpen ==
    /\ pc = "main"
    /\ store' = [store EXCEPT !.db_connection = "open"]
    /\ calls' = [calls EXCEPT !.open = @ + 1]
    /\ db' = ConnBegin(db)
    /\ pc' = "collect"
    /\ UNCHANGED <<config, others, archivers, elements, collect_task, archive_task, uniques>>

\* the device the loop "for device_id in devices" of the single pipeline is at
NextDevice(tasks) ==
    IF \E d \in DeviceIds : tasks[d].state = "none"
    THEN CHOOSE d \in DeviceIds :
            /\ tasks[d].state = "none"
            /\ \A e \in DeviceIds : e < d => tasks[e].state # "none"
    ELSE 0

\* whether the tasks of a phase have all returned or raised
AllReturned(tasks) == \A d \in DOMAIN tasks : tasks[d].state \in {"done", "failed"}

\* a pipeline that does not wait for its pool
PoolJoinedNoWait(tasks) == TRUE

\* thread_pool.close(); thread_pool.join(): every task of the pool has ended
PoolJoined(tasks) == AllReturned(tasks)

\* a pipeline that never asks its tasks for their outcome
GetRaisesNever(tasks) == FALSE

\* "for device_id in devices: async_tasks[device_id].get()": get re-raises
\* the exception of a task that raised
GetRaises(tasks) == \E d \in DOMAIN tasks : tasks[d].state = "failed"

\* a pool that takes a task whatever its workers are doing
RunningUncounted(tasks) == 0

\* a pool whose workers do not come back for another task
RunningNeverFreed(tasks) ==
    Cardinality({d \in DOMAIN tasks : tasks[d].state \notin {"none", "pending"}})

\* the number of tasks a pool is executing
Running(tasks) ==
    Cardinality({d \in DOMAIN tasks :
                    tasks[d].state \notin {"none", "pending", "done", "failed"}})

\* the call collector(..., map_options_to_digests(options), ...): the
\* argument is evaluated, "hash_funcs = hashlib_functions"
CollectorCalled(t, state) ==
    [t EXCEPT !.state = state,
              !.hashlib_functions = map_options_to_digests(options),
              !.hash_funcs = map_options_to_digests(options),
              !.first = TRUE]

\* deduplication_pipeline_single: the next collector call
SingleCollect ==
    /\ pc = "collect" /\ Single
    /\ \A d \in DeviceIds : collect_task[d].state \in {"none", "done"}
    /\ IF NextDevice(collect_task) # 0
       THEN /\ collect_task' = [collect_task EXCEPT
                                  ![NextDevice(collect_task)] =
                                      CollectorCalled(@, "running")]
            /\ pc' = pc
       ELSE /\ pc' = "archive"
            /\ UNCHANGED collect_task
    /\ UNCHANGED <<config, others, db, archivers, store, elements, calls, archive_task, uniques>>

\* deduplication_pipeline: "if options.collect:" and the apply_async loop
PoolCollectSubmit ==
    /\ pc = "collect" /\ ~Single
    /\ IF options.collect
       THEN /\ collect_task' = [d \in DOMAIN collect_task |->
                                  CollectorCalled(collect_task[d], "pending")]
            /\ pc' = "collect_join"
       ELSE /\ pc' = "archive"
            /\ UNCHANGED collect_task
    /\ UNCHANGED <<config, others, db, archivers, store, elements, calls, archive_task, uniques>>

\* a worker of the collect pool takes a task
PoolCollectStart(d) ==
    /\ ProcessAlive
    /\ collect_task[d].state = "pending"
    /\ Running(collect_task) < options.number_threads
    /\ collect_task' = [collect_task EXCEPT ![d].state = "running"]
    /\ UNCHANGED <<config, others, db, archivers, pc, store, elements, calls, archive_task, uniques>>

\* join, then async_tasks[device_id].get() re-raises a task's exception
PoolCollectJoin ==
    /\ pc = "collect_join"
    /\ PoolJoined(collect_task)
    /\ pc' = IF GetRaises(collect_task) THEN "crashed" ELSE "archive"
    /\ UNCHANGED <<config, others, db, archivers, store, elements, calls, collect_task, archive_task, uniques>>

(* ------------------------------ collector ----------------------------- *)

\* the block get_slack_block reports for the entry at position i of a listing
LastBlock(i) == i

\* the digest objects after calculate_file_hashes has fed them a file
Fed(hash_functions, content, read_chunk_size) ==
    FeedChunks(hash_functions, content, read_chunk_size)

\* the passed digest objects after a file is hashed with t.hash_funcs:
\* the first file is hashed with these very objects
HashlibFunctionsAfter(t, content, read_chunk_size) ==
    IF t.first THEN Fed(t.hash_funcs, content, read_chunk_size)
    ELSE t.hashlib_functions

\* the outcomes of get_slack_block: it returns the block, or it raises
SlackOutcomes == {"ok", "blocks_raise"}

\* The body of collector's loop for the next entry of the walk of device d.
\* open_ok: open(filename, "rb") succeeds; slack: get_slack_block returns
\* ("ok") or raises.  The collector returns after the last entry.
CollectorVisit(d) ==
    /\ ProcessAlive
    /\ collect_task[d].state = "running"
    /\ \E open_ok \in BOOLEAN, slack \in SlackOutcomes :
        LET t == collect_task[d]
            listing == Listing(d)
            i == t.idx + 1
            entry == listing[i]
            func == assign_read_file_slack(platform)
            after == IF i = Len(listing) THEN "done" ELSE "running"
            fail(cause) ==
                /\ collect_task' = [collect_task EXCEPT
                                      ![d] = [t EXCEPT !.state = "failed", !.cause = cause]]
                /\ pc' = IF Single THEN "crashed" ELSE pc
                /\ UNCHANGED <<store, elements, calls>>
        IN
        IF ~entry.isfile
        THEN /\ collect_task' = [collect_task EXCEPT
                                   ![d] = [t EXCEPT !.state = after, !.idx = i]]
             /\ UNCHANGED <<pc, store, elements, calls>>
        ELSE IF ~open_ok THEN fail("open")
        ELSE IF CallsGetSlackBlock(func, cluster[d]) /\ slack = "blocks_raise"
        THEN fail("slack")
        ELSE IF store.db_connection # "open"
        THEN /\ collect_task' = [collect_task EXCEPT
                                   ![d] = [t EXCEPT !.state = "failed", !.cause = "store"]]
             /\ pc' = IF Single THEN "crashed" ELSE pc
             /\ calls' = RecordUse(calls)
             /\ UNCHANGED <<store, elements>>
        ELSE
            LET digests == calculate_file_hashes(entry.content, t.hash_funcs,
                                                 options.hash_chunk_size)
                used == HashlibFunctionsAfter(t, entry.content, options.hash_chunk_size)
                file_slack == CallReadFileSlack(func, get_device_loop(platform, d),
                                  LastBlock(i), cluster[d], raw_readable)
                stored == store_entry(store, elements,
                              Entry(digests[1], digests[2], digests[3], d,
                                    entry.path, file_slack))
            IN /\ store' = stored.store
               /\ elements' = stored.elements
               /\ calls' = RecordUse(calls)
               /\ collect_task' = [collect_task EXCEPT
                                     ![d] = [t EXCEPT !.state = after, !.idx = i,
                                                      !.hashlib_functions = used,
                                                      !.hash_funcs = refresh_hash_pool(used),
                                                      !.first = FALSE]]
               /\ pc' = pc
    /\ UNCHANGED <<config, others, db, archivers, archive_task, uniques>>

(* ------------------------------ archiver ------------------------------ *)

\* path.abspath(target_path)[con_src + 1:], con_src = len(device_sourcepath)
Alias(target_path, device_sourcepath) ==
    SubSeq(target_path, Len(device_sourcepath) + 2, Len(target_path))

\* deduplication_pipeline_single: the next archiver call, then close
SingleArchive ==
    /\ pc = "archive" /\ Single
    /\ \A d \in DeviceIds : archive_task[d].state \in {"none", "done"}
    /\ IF NextDevice(archive_task) # 0
       THEN /\ archive_task' = [archive_task EXCEPT
                                  ![NextDevice(archive_task)].state = "running"]
            /\ pc' = pc
       ELSE /\ pc' = "close"
            /\ UNCHANGED archive_task
    /\ UNCHANGED <<config, others, db, archivers, store, elements, calls, collect_task, uniques>>

\* deduplication_pipeline: "if options.create_archive:" and the apply_async loop
PoolArchiveSubmit ==
    /\ pc = "archive" /\ ~Single
    /\ IF options.create_archive
       THEN /\ archive_task' = [d \in DOMAIN archive_task |->
                                  [archive_task[d] EXCEPT !.state = "pending"]]
            /\ pc' = "archive_join"
       ELSE /\ pc' = "close"
            /\ UNCHANGED archive_task
    /\ UNCHANGED <<config, others, db, archivers, store, elements, calls, collect_task, uniques>>

\* a worker of the archive pool takes a task
PoolArchiveStart(d) ==
    /\ ProcessAlive
    /\ archive_task[d].state = "pending"
    /\ Running(archive_task) < options.number_threads
    /\ archive_task' = [archive_task EXCEPT ![d].state = "running"]
    /\ UNCHANGED <<config, others, db, archivers, pc, store, elements, calls, collect_task, uniques>>

\* an archiver raised, in the archive service's method `called` or (<<>>)
\* in the store: the single pipeline unwinds at once, a pool task keeps its
\* exception for get()
ArchiverFails(d, called) ==
    /\ archive_task' = [archive_task EXCEPT
                          ![d].state = "failed", ![d].log = @ \o called]
    /\ pc' = IF Single THEN "crashed" ELSE pc

\* "archive-{}-{}".format(device_id, datetime.today().strftime(...)): the
\* three parts of the name
archive_name(device_id, today) == <<"archive", device_id, today>>

\* an archiver task that works on the object it was given
deepcopy_omitted(service, d) == service

\* deepcopy(archive_service) in the task of device d: a new object, d
deepcopy(service, d) == d

\* the objects after the copy: the new one has the fields of the original
Copied(objs, service, copy) ==
    IF copy \in DOMAIN objs THEN objs
    ELSE objs @@ (copy :> [objs[service] EXCEPT !.users = {}])

\* the object o has received a call of the task of device d
Called(objs, o, d) == [objs EXCEPT ![o].users = @ \cup {d}]

\* archive_service = deepcopy(archive_service), then
\* archive_service.provide(archive_location, archive_name): ZipArchiver
\* creates the container (or zipfile.ZipFile raises) when it has none, and
\* raises RuntimeError when it has one
ArchiverProvide(d) ==
    /\ ProcessAlive
    /\ archive_task[d].state = "running"
    /\ \E created \in BOOLEAN :
        LET copy == deepcopy(archive_task[d].service, d)
            objs == Called(Copied(archivers, archive_task[d].service, copy), copy, d)
        IN
        IF objs[copy].zip_file_ptr = "None" /\ created
        THEN /\ archivers' = [objs EXCEPT ![copy].zip_file_ptr = "open"]
             /\ archive_task' = [archive_task EXCEPT
                                   ![d].state = "provided", ![d].service = copy,
                                   ![d].name = archive_name(d, "%Y-%m-%d-%H-%M-%S"),
                                   ![d].log = Append(@, "provide")]
             /\ pc' = pc
        ELSE /\ archivers' = objs
             /\ archive_task' = [archive_task EXCEPT
                                   ![d].state = "failed", ![d].service = copy,
                                   ![d].log = Append(@, "provide")]
             /\ pc' = IF Single THEN "crashed" ELSE pc
    /\ UNCHANGED <<config, others, db, store, elements, calls, collect_task, uniques>>

\* the first step of the loop: get_uniques_for_device commits what is
\* pending and runs its query; the archiver keeps el[0] of every row
ArchiverUniques(d) ==
    /\ ProcessAlive
    /\ archive_task[d].state = "provided"
    /\ calls' = RecordUse(calls)
    /\ IF store.db_connection = "open"
       THEN \E rows \in {get_uniques_for_device(elements, d,
                                options.unique_elements_chunk_size)} :
               /\ archive_task' = [archive_task EXCEPT
                     ![d].state = "storing",
                     ![d].todo = [k \in 1..Len(rows) |-> rows[k][1]]]
               /\ db' = ConnCommit(db, elements)
               /\ pc' = pc
       ELSE /\ ArchiverFails(d, <<>>)
            /\ UNCHANGED db
    /\ UNCHANGED <<config, others, archivers, store, elements, collect_task, uniques>>

\* archive_service.store_file(target_path, alias): ZipFile.write puts the
\* member into the open container, or raises; without a container
\* ZipArchiver raises RuntimeWarning
ArchiverStoreFile(d) ==
    /\ ProcessAlive
    /\ archive_task[d].state = "storing"
    /\ archive_task[d].todo # <<>>
    /\ archivers' = Called(archivers, archive_task[d].service, d)
    /\ \E written \in BOOLEAN :
        IF archivers[archive_task[d].service].zip_file_ptr = "open" /\ written
        THEN /\ archive_task' = [archive_task EXCEPT
                   ![d].todo = Tail(@),
                   ![d].log = Append(@, "store_file"),
                   ![d].members = Append(@,
                        [source |-> Head(archive_task[d].todo),
                         alias |-> Alias(Head(archive_task[d].todo), MountPath(d))])]
             /\ pc' = pc
        ELSE ArchiverFails(d, <<"store_file">>)
    /\ UNCHANGED <<config, others, db, store, elements, calls, collect_task, uniques>>

\* an archiver that closes the container before its loop is through
ArchiverCloseEarly(d) ==
    /\ ProcessAlive
    /\ archive_task[d].state = "storing"
    /\ archivers[archive_task[d].service].zip_file_ptr # "None"
    /\ archivers' = [Called(archivers, archive_task[d].service, d) EXCEPT
                        ![archive_task[d].service].zip_file_ptr = "closed"]
    /\ archive_task' = [archive_task EXCEPT
                          ![d].state = "done", ![d].log = Append(@, "close")]
    /\ pc' = pc
    /\ UNCHANGED <<config, others, db, store, elements, calls, collect_task, uniques>>

\* archive_service.close() after the loop: ZipArchiver closes the ZipFile
\* it has (the pointer stays set) and the archiver returns; without one it
\* raises RuntimeWarning
ArchiverClose(d) ==
    /\ ProcessAlive
    /\ archive_task[d].state = "storing"
    /\ archive_task[d].todo = <<>>
    /\ IF archivers[archive_task[d].service].zip_file_ptr # "None"
       THEN /\ archivers' = [Called(archivers, archive_task[d].service, d) EXCEPT
                                ![archive_task[d].service].zip_file_ptr = "closed"]
            /\ archive_task' = [archive_task EXCEPT
                                  ![d].state = "done", ![d].log = Append(@, "close")]
            /\ pc' = pc
       ELSE /\ archivers' = Called(archivers, archive_task[d].service, d)
            /\ ArchiverFails(d, <<"close">>)
    /\ UNCHANGED <<config, others, db, store, elements, calls, collect_task, uniques>>

\* a pipeline that goes on to close() while archivers may still run
PoolArchiveJoinNoWait ==
    /\ pc = "archive_join"
    /\ pc' = "close"
    /\ UNCHANGED <<config, others, db, archivers, store, elements, calls, collect_task, archive_task, uniques>>

\* join, then async_tasks[device_id].get() re-raises a task's exception
PoolArchiveJoin ==
    /\ pc = "archive_join"
    /\ PoolJoined(archive_task)
    /\ pc' = IF GetRaises(archive_task) THEN "crashed" ELSE "close"
    /\ UNCHANGED <<config, others, db, archivers, store, elements, calls, collect_task, archive_task, uniques>>

\* a pipeline that returns without closing the store
PipelineCloseForgotten ==
    /\ pc = "close"
    /\ pc' = "finished"
    /\ UNCHANGED <<config, others, db, archivers, store, elements, calls, collect_task, archive_task, uniques>>

\* data_store.close(), the last statement of both pipelines: commit, then
\* the connection is closed
PipelineClose ==
    /\ pc = "close"
    /\ store.db_connection = "open"
    /\ db' = ConnCommit(db, elements)
    /\ store' = [store EXCEPT !.db_connection = "None"]
    /\ calls' = [calls EXCEPT !.close = @ + 1]
    /\ pc' = "finished"
    /\ UNCHANGED <<config, others, archivers, elements, collect_task, archive_task, uniques>>

Next ==
    \/ PipelineOpen
    \/ SingleCollect
    \/ PoolCollectSubmit
    \/ \E d \in DeviceIds : PoolCollectStart(d)
    \/ \E d \in DeviceIds : CollectorVisit(d)
    \/ PoolCollectJoin
    \/ SingleArchive
    \/ PoolArchiveSubmit
    \/ \E d \in DeviceIds : PoolArchiveStart(d)
    \/ \E d \in DeviceIds : ArchiverProvide(d)
    \/ \E d \in DeviceIds : ArchiverUniques(d)
    \/ \E d \in DeviceIds : ArchiverStoreFile(d)
    \/ \E d \in DeviceIds : ArchiverClose(d)
    \/ PoolArchiveJoin
    \/ PipelineClose

Spec == Init /\ [][Next]_vars

\* a run whose collectors hash with chunk_size 0, the default of
\* collector's parameter
InitZero ==
    /\ options \in {[DefaultOptions EXCEPT !.collect = c, !.create_archive = a,
                        !.number_threads = n, !.store_slack_space = s,
                        !.hash_chunk_size = 0] :
                    c \in BOOLEAN, a \in BOOLEAN, n \in 1..MaxThreads, s \in BOOLEAN}
    /\ platform \in Platforms
    /\ raw_readable \in IF platform = "Linux" THEN BOOLEAN ELSE {TRUE}
    /\ cluster = DeviceClusters
    /\ pc = "main"
    /\ store = NewStore(1000)
    /\ elements = EmptyBag
    /\ calls = NoCalls
    /\ collect_task = [d \in DeviceIds |-> NoCollectTask]
    /\ archive_task = [d \in DeviceIds |-> NoArchiveTask]
    /\ uniques = NoUniques
    /\ env = ValidEnv
    /\ boot = Booted
    /\ archivers = (Prototype :> NewArchiver)
    /\ alias_call = NoAliasCall
    /\ db = NewDb
    /\ threads = [d \in DeviceIds |-> NoThread]
    /\ AloneIdle

SpecZero == InitZero /\ [][Next]_vars

(* ------------------- main: logger and pre-flight checks ---------------- *)

\* path.exists(options.archive_location)
PathExists(location) == location \in {"file", "dir"}

\* logging.FileHandler(path.join(log_dir, "deduplication.<time>.log")) can
\* create its file only in an existing directory
CanCreateFileIn(location) == location = "dir"

\* validate_data_store, validate_archiver, validate_options and
\* validate_devices: TRUE when the function returns, FALSE when it raises
\* SystemExit.  options and devices are the Options and Devices instances
\* main has been using, so their isinstance checks pass.
validate_data_store(e) == e.datastore_valid
validate_archiver(e) == e.archsvc_valid

\* a validate_options that never objects
validate_options_lenient(o, e) == TRUE

validate_options(o, e) ==
    ~(o.create_archive
        /\ (e.archive_location = "unset" \/ ~PathExists(e.archive_location)))

\* a validate_devices that looks at the paths only
validate_devices_paths_only(e, clusters) == \A d \in DeviceIds : e.mounts[d]

validate_devices(e, clusters) ==
    \A d \in DeviceIds : e.mounts[d] /\ ~(clusters[d] < 0)

\* "Update Logger Settings": with log_format set and log_to_file True the
\* log file is created under archive_location (unless that is None); an
\* IOError of FileHandler is not caught
MainUpdateLogger ==
    /\ pc = "configured"
    /\ IF env.log_format # "None" /\ env.log_to_file /\ env.archive_location # "unset"
       THEN IF CanCreateFileIn(env.archive_location)
            THEN /\ boot' = [boot EXCEPT !.log_file = "opened"]
                 /\ pc' = "validate"
            ELSE /\ pc' = "crashed"
                 /\ UNCHANGED boot
       ELSE /\ pc' = "validate"
            /\ UNCHANGED boot
    /\ UNCHANGED <<config, alone, env, archivers, alias_call, db, threads, store, elements,
                   calls, collect_task, archive_task, uniques>>

\* the validation main is at returns, or raises SystemExit
RunValidation(name, passes) ==
    /\ pc = "validate"
    /\ Len(boot.validated) < Len(Validations)
    /\ Validations[Len(boot.validated) + 1] = name
    /\ IF passes
       THEN /\ boot' = [boot EXCEPT !.validated = Append(@, name)]
            /\ pc' = IF Len(boot.validated) + 1 = Len(Validations) THEN "main" ELSE pc
       ELSE /\ boot' = [boot EXCEPT !.failed = name]
            /\ pc' = "exited"
    /\ UNCHANGED <<config, alone, env, archivers, alias_call, db, threads, store, elements,
                   calls, collect_task, archive_task, uniques>>

MainValidateDataStore == RunValidation("data_store", validate_data_store(env))
MainValidateArchiver == RunValidation("archiver", validate_archiver(env))
MainValidateOptions == RunValidation("options", validate_options(options, env))
MainValidateDevices == RunValidation("devices", validate_devices(env, cluster))

\* the cluster sizes of a configuration: as configured, or negative for
\* one device
ClusterChoices ==
    {DeviceClusters} \cup {[DeviceClusters EXCEPT ![d] = -ClusterBytes] : d \in DeviceIds}

InitMain ==
    /\ options \in {[DefaultOptions EXCEPT !.collect = c, !.create_archive = a,
                        !.number_threads = n] :
                    c \in BOOLEAN, a \in BOOLEAN, n \in 1..MaxThreads}
    /\ platform = "Windows"
    /\ raw_readable = TRUE
    /\ cluster \in ClusterChoices
    /\ pc = "configured"
    /\ store = NewStore(1000)
    /\ elements = EmptyBag
    /\ calls = NoCalls
    /\ collect_task = [d \in DeviceIds |-> NoCollectTask]
    /\ archive_task = [d \in DeviceIds |-> NoArchiveTask]
    /\ uniques = NoUniques
    /\ env \in [datastore_valid : BOOLEAN, archsvc_valid : BOOLEAN,
                 archive_location : ArchiveLocations,
                 log_format : {"None", "set"}, log_to_file : BOOLEAN,
                 mounts : [DeviceIds -> BOOLEAN]]
    /\ boot = NoBoot
    /\ archivers = (Prototype :> NewArchiver)
    /\ alias_call = NoAliasCall
    /\ db = NewDb
    /\ threads = [d \in DeviceIds |-> NoThread]
    /\ AloneIdle

\* main from the loaded configuration to the end of the pipeline
NextMain ==
    \/ MainUpdateLogger
    \/ MainValidateDataStore
    \/ MainValidateArchiver
    \/ MainValidateOptions
    \/ MainValidateDevices
    \/ Next

SpecMain == InitMain /\ [][NextMain]_vars

(* ----------------- the store on its own: collect, then query ---------- *)

\* the file contents and file names the store-level runs draw from
StoreContents == {<<104, 0>>, <<104, 1>>}
StoreNames == {97, 98}
ChunkSizes == {DefaultUniqueChunkSize, 0, 1, 2}

InitStore ==
    /\ options \in {[DefaultOptions EXCEPT !.enable_sha1 = a, !.enable_sha256 = b,
                        !.enable_md5 = c] :
                    a \in BOOLEAN, b \in BOOLEAN, c \in BOOLEAN}
    /\ platform = "Linux"
    /\ raw_readable = TRUE
    /\ cluster = DeviceClusters
    /\ pc = "store_collect"
    /\ store = [NewStore(1000) EXCEPT !.db_connection = "open"]
    /\ elements = EmptyBag
    /\ calls = [NoCalls EXCEPT !.open = 1]
    /\ collect_task = [d \in DeviceIds |-> NoCollectTask]
    /\ archive_task = [d \in DeviceIds |-> NoArchiveTask]
    /\ uniques = NoUniques
    /\ env = ValidEnv
    /\ boot = Booted
    /\ archivers = (Prototype :> NewArchiver)
    /\ alias_call = NoAliasCall
    /\ db = ConnBegin(NewDb)
    /\ threads = [d \in DeviceIds |-> NoThread]
    /\ AloneIdle

\* a collector of device d stores the entry of a file it hashed
StoreEntryCall(d, name, content) ==
    /\ pc = "store_collect"
    /\ BagCardinality(elements) < MaxRows
    /\ LET digests == calculate_file_hashes(content, map_options_to_digests(options),
                                            options.hash_chunk_size)
           stored == store_entry(store, elements,
                         Entry(digests[1], digests[2], digests[3], d,
                               MountPath(d) \o <<47, name>>, EmptyBytes))
       IN /\ store' = stored.store
          /\ elements' = stored.elements
    /\ calls' = RecordUse(calls)
    /\ UNCHANGED <<config, others, db, archivers, pc, collect_task, archive_task, uniques>>

\* every collector has returned
StoreCollectDone ==
    /\ pc = "store_collect"
    /\ pc' = "store_query"
    /\ UNCHANGED <<config, others, db, archivers, store, elements, calls, collect_task, archive_task, uniques>>

\* get_uniques_for_device(d, chunk_size), run to exhaustion
UniquesCall(d, chunk_size) ==
    /\ pc = "store_query"
    /\ uniques' = [device |-> d, chunk_size |-> chunk_size,
                   yielded |-> get_uniques_for_device(elements, d, chunk_size)]
    /\ calls' = RecordUse(calls)
    /\ db' = ConnCommit(db, elements)
    /\ UNCHANGED <<config, others, archivers, pc, store, elements, collect_task, archive_task>>

NextStore ==
    \/ \E d \in DeviceIds, name \in StoreNames, content \in StoreContents :
          StoreEntryCall(d, name, content)
    \/ StoreCollectDone
    \/ \E d \in DeviceIds, chunk_size \in ChunkSizes : UniquesCall(d, chunk_size)

SpecStore == InitStore /\ [][NextStore]_vars

(* ------------------------ the alias on its own ------------------------- *)

\* Devices.fixed_path: a path that is not quoted is put into double quotes
fixed_path(p) ==
    IF Len(p) >= 2 /\ Head(p) = 34 /\ p[Len(p)] = 34 THEN p
    ELSE <<34>> \o p \o <<34>>

\* remove_quotes: re.sub('"', '', path_string)
IsNoQuote(c) == c # 34
remove_quotes(path_string) == SelectSeq(path_string, IsNoQuote)

\* path.abspath of an absolute path without "." and "..": trailing
\* separators go, the root stays "/"
RECURSIVE abspath(_)
abspath(p) ==
    IF Len(p) > 1 /\ p[Len(p)] = 47 THEN abspath(SubSeq(p, 1, Len(p) - 1)) ELSE p

\* path.join(dir_path, name) for a relative name
PathJoin(dir_path, name) ==
    IF dir_path # <<>> /\ dir_path[Len(dir_path)] = 47
    THEN dir_path \o name
    ELSE dir_path \o <<47>> \o name

\* the device paths a configuration can hold: the root, the mount paths
\* with and without a trailing separator, and nested mount paths
DevicePaths ==
    {fixed_path(p) : p \in
        {<<47>>} \cup {MountPath(d) : d \in DeviceIds}
                 \cup {MountPath(d) \o <<47>> : d \in DeviceIds}
                 \cup {MountPath(d) \o MountPath(e) : d, e \in DeviceIds}}

\* the names of files below a device root, up to MaxFiles + 1 components
RECURSIVE RelPaths(_)
RelPaths(depth) ==
    IF depth = 0 THEN {}
    ELSE {<<n>> : n \in StoreNames}
         \cup {<<n, 47>> \o r : n \in StoreNames, r \in RelPaths(depth - 1)}

InitAlias ==
    /\ options = DefaultOptions
    /\ platform = "Linux"
    /\ raw_readable = TRUE
    /\ cluster = DeviceClusters
    /\ pc = "alias"
    /\ store = NewStore(1000)
    /\ elements = EmptyBag
    /\ calls = NoCalls
    /\ collect_task = [d \in DeviceIds |-> NoCollectTask]
    /\ archive_task = [d \in DeviceIds |-> NoArchiveTask]
    /\ uniques = NoUniques
    /\ env = ValidEnv
    /\ boot = Booted
    /\ archivers = (Prototype :> NewArchiver)
    /\ alias_call \in {[NoAliasCall EXCEPT !.device_path = p] : p \in DevicePaths}
    /\ db = NewDb
    /\ threads = [d \in DeviceIds |-> NoThread]
    /\ AloneIdle

\* The pipeline's device_sourcepath for the configured device_path, the
\* path the collector stored for the file rel below it (walk joins the
\* names onto the source path), and the alias the archiver passes to
\* store_file for that path.
AliasCall(rel) ==
    /\ pc = "alias"
    /\ ~alias_call.called
    /\ LET device_sourcepath == abspath(remove_quotes(alias_call.device_path))
           target_path == PathJoin(device_sourcepath, rel)
       IN alias_call' = [alias_call EXCEPT
                            !.device_sourcepath = device_sourcepath,
                            !.target_path = target_path,
                            !.alias = Alias(abspath(target_path), device_sourcepath),
                            !.called = TRUE]
    /\ UNCHANGED <<config, alone, env, boot, archivers, db, threads, pc, store, elements,
                   calls, collect_task, archive_task, uniques>>

NextAlias == \E rel \in RelPaths(MaxFiles + 1) : AliasCall(rel)

SpecAlias == InitAlias /\ [][NextAlias]_vars

(* ---------------- concurrent collectors, store_entry in steps ---------- *)

\* the row the collector of device d stores for its i-th regular file
CollectorRow(d, i) ==
    LET entry == Listing(d)[i + 1]
        digests == calculate_file_hashes(entry.content, map_options_to_digests(options),
                                         options.hash_chunk_size)
    IN Entry(digests[1], digests[2], digests[3], d, entry.path, EmptyBytes)

InitConc ==
    /\ options = [DefaultOptions EXCEPT !.number_threads = MaxThreads,
                                        !.create_archive = FALSE]
    /\ platform = "Windows"
    /\ raw_readable = TRUE
    /\ cluster = DeviceClusters
    /\ pc = "main"
    /\ store \in {NewStore(w) : w \in (0 - MaxThreshold)..MaxThreshold}
    /\ elements = EmptyBag
    /\ calls = NoCalls
    /\ collect_task = [d \in DeviceIds |-> NoCollectTask]
    /\ archive_task = [d \in DeviceIds |-> NoArchiveTask]
    /\ uniques = NoUniques
    /\ env = ValidEnv
    /\ boot = Booted
    /\ archivers = (Prototype :> NewArchiver)
    /\ alias_call = NoAliasCall
    /\ db = NewDb
    /\ threads = [d \in DeviceIds |-> NoThread]
    /\ AloneIdle

\* store_entry, first statement: db_connection.execute(insert_element, ...).
\* Outside a transaction the sqlite3 module begins one before an INSERT.
ThreadInsert(t) ==
    /\ pc = "collect"
    /\ threads[t].pc = "idle"
    /\ threads[t].file < MaxFiles
    /\ elements' = InsertElement(elements, CollectorRow(t, threads[t].file + 1))
    /\ db' = ConnBegin(db)
    /\ threads' = [threads EXCEPT ![t].pc = "inserted", ![t].file = @ + 1]
    /\ calls' = RecordUse(calls)
    /\ UNCHANGED <<config, alone, env, boot, archivers, alias_call, pc, store,
                   collect_task, archive_task, uniques>>

\* "with self.lock:": the counter is incremented; below the threshold the
\* call returns, at the threshold the pending rows are committed
ThreadCount(t) ==
    /\ pc = "collect"
    /\ threads[t].pc = "inserted"
    /\ db.lock = 0
    /\ IF store.current_data_runner + 1 >= store.write_data_threshold
       THEN /\ store' = [store EXCEPT !.current_data_runner = @ + 1]
            /\ db' = [ConnCommit(db, elements) EXCEPT !.lock = t]
            /\ threads' = [threads EXCEPT ![t].pc = "committed"]
       ELSE /\ store' = [store EXCEPT !.current_data_runner = NextDataRunner(store)]
            /\ threads' = [threads EXCEPT ![t].pc = "idle", ![t].returned = @ + 1]
            /\ UNCHANGED db
    /\ UNCHANGED <<config, alone, env, boot, archivers, alias_call, pc, elements, calls,
                   collect_task, archive_task, uniques>>

\* still under the lock: execute("BEGIN TRANSACTION"), which raises
\* OperationalError inside a transaction (another collector's INSERT has
\* begun one since the commit); else the counter is lowered and the call
\* returns.  Leaving the with block releases the lock either way.
ThreadBegin(t) ==
    /\ pc = "collect"
    /\ threads[t].pc = "committed"
    /\ db.lock = t
    /\ IF db.txn = "active"
       THEN /\ db' = [db EXCEPT !.lock = 0]
            /\ threads' = [threads EXCEPT ![t].pc = "raised"]
            /\ UNCHANGED store
       ELSE /\ db' = [ConnBegin(db) EXCEPT !.lock = 0]
            /\ store' = [store EXCEPT
                            !.current_data_runner = @ - store.write_data_threshold]
            /\ threads' = [threads EXCEPT ![t].pc = "idle", ![t].returned = @ + 1]
    /\ UNCHANGED <<config, alone, env, boot, archivers, alias_call, pc, elements, calls,
                   collect_task, archive_task, uniques>>

\* the collector of t has stored its last file and returns
ThreadReturned(t) == threads[t].pc = "idle" /\ threads[t].file = MaxFiles

\* the pool is joined: with every collector returned the pipeline goes on
\* to close (nothing is archived), with one that raised get() re-raises
ConcJoin ==
    /\ pc = "collect"
    /\ \A t \in DeviceIds : ThreadReturned(t) \/ threads[t].pc = "raised"
    /\ pc' = IF \E t \in DeviceIds : threads[t].pc = "raised" THEN "crashed" ELSE "close"
    /\ UNCHANGED <<config, alone, env, boot, archivers, alias_call, db, threads, store,
                   elements, calls, collect_task, archive_task, uniques>>

NextConc ==
    \/ PipelineOpen
    \/ \E t \in DeviceIds : ThreadInsert(t)
    \/ \E t \in DeviceIds : ThreadCount(t)
    \/ \E t \in DeviceIds : ThreadBegin(t)
    \/ ConcJoin
    \/ PipelineClose

SpecConc == InitConc /\ [][NextConc]_vars

(* --------------------- a FileArchiver object on its own ---------------- *)

ArchiverKinds == {"ZipArchiver", "AFF4Archiver"}

\* a container as it is created: a zip file or an AFF4 directory
NewContainer == [members |-> <<>>, open |-> TRUE]

\* the newest container gets a member / is finalized
AddMember(cs, alias) == [cs EXCEPT ![Len(cs)].members = Append(@, alias)]
Finalize(cs) == [cs EXCEPT ![Len(cs)].open = FALSE]

\* a provide that replaces the container it has
ZipArchiver_provide_replacing(obj, cs, created) ==
    [obj |-> [obj EXCEPT !.zip_file_ptr = "open"], containers |-> Append(cs, NewContainer),
     outcome |-> "ok"]

\* ZipArchiver.provide: zipfile.ZipFile(..., "w") creates the container or
\* raises (created = FALSE); with zip_file_ptr set, RuntimeError
ZipArchiver_provide(obj, cs, created) ==
    IF obj.zip_file_ptr = "None"
    THEN IF created
         THEN [obj |-> [obj EXCEPT !.zip_file_ptr = "open"],
               containers |-> Append(cs, NewContainer), outcome |-> "ok"]
         ELSE [obj |-> obj, containers |-> cs, outcome |-> "IOError"]
    ELSE [obj |-> obj, containers |-> cs, outcome |-> "RuntimeError"]

\* ZipArchiver.store_file: with zip_file_ptr set it calls ZipFile.write,
\* which adds the member, or raises for the source (written = FALSE), or
\* raises because the ZipFile has been closed ("zipfile"); with
\* zip_file_ptr None, RuntimeWarning
ZipArchiver_store_file(obj, cs, alias, written) ==
    IF obj.zip_file_ptr # "None"
    THEN IF obj.zip_file_ptr = "closed"
         THEN [obj |-> obj, containers |-> cs, outcome |-> "zipfile"]
         ELSE IF written
         THEN [obj |-> obj, containers |-> AddMember(cs, alias), outcome |-> "ok"]
         ELSE [obj |-> obj, containers |-> cs, outcome |-> "IOError"]
    ELSE [obj |-> obj, containers |-> cs, outcome |-> "RuntimeWarning"]

\* ZipArchiver.close: ZipFile.close() finalizes the container (again, if
\* it is closed already); zip_file_ptr stays set.  With zip_file_ptr None,
\* RuntimeWarning
ZipArchiver_close(obj, cs) ==
    IF obj.zip_file_ptr # "None"
    THEN [obj |-> [obj EXCEPT !.zip_file_ptr = "closed"], containers |-> Finalize(cs),
          outcome |-> "ok"]
    ELSE [obj |-> obj, containers |-> cs, outcome |-> "RuntimeWarning"]

\* AFF4Archiver.provide: with aff4root None it sets aff4root and then
\* creates the AFF4 directory, or raises doing so; with aff4root set it
\* does nothing
AFF4Archiver_provide(obj, cs, created) ==
    IF obj.aff4root = "None"
    THEN IF created
         THEN [obj |-> [obj EXCEPT !.aff4root = "open"],
               containers |-> Append(cs, NewContainer), outcome |-> "ok"]
         ELSE [obj |-> [obj EXCEPT !.aff4root = "open"], containers |-> cs,
               outcome |-> "IOError"]
    ELSE [obj |-> obj, containers |-> cs, outcome |-> "ok"]

\* AFF4Archiver.store_file: with aff4root set it creates the member (an
\* error while copying the source is logged, the member stays); with
\* aff4root None, RuntimeError
AFF4Archiver_store_file(obj, cs, alias, written) ==
    IF obj.aff4root # "None"
    THEN [obj |-> obj,
          containers |-> IF cs = <<>> THEN <<[NewContainer EXCEPT !.members = <<alias>>]>>
                         ELSE AddMember(cs, alias),
          outcome |-> "ok"]
    ELSE [obj |-> obj, containers |-> cs, outcome |-> "RuntimeError"]

\* AFF4Archiver.close: aff4root becomes None
AFF4Archiver_close(obj, cs) ==
    IF obj.aff4root # "None"
    THEN [obj |-> [obj EXCEPT !.aff4root = "None"],
          containers |-> IF cs = <<>> THEN cs ELSE Finalize(cs), outcome |-> "ok"]
    ELSE [obj |-> obj, containers |-> cs, outcome |-> "ok"]

InitArchiver ==
    /\ options = DefaultOptions
    /\ platform = "Linux"
    /\ raw_readable = TRUE
    /\ cluster = DeviceClusters
    /\ pc = "archiver_alone"
    /\ store = NewStore(1000)
    /\ elements = EmptyBag
    /\ calls = NoCalls
    /\ collect_task = [d \in DeviceIds |-> NoCollectTask]
    /\ archive_task = [d \in DeviceIds |-> NoArchiveTask]
    /\ uniques = NoUniques
    /\ env = ValidEnv
    /\ boot = Booted
    /\ archivers = (Prototype :> NewArchiver)
    /\ alias_call = NoAliasCall
    /\ db = NewDb
    /\ threads = [d \in DeviceIds |-> NoThread]
    /\ archiver_obj \in {NewArchiverObject(k) : k \in ArchiverKinds}
    /\ containers = <<>>
    /\ archiver_call = NoArchiverCall
    /\ ds_call = NoDsCall
    /\ hash_call = NoHashCall

\* a call on the object: its result becomes the state, the call is recorded
ArchiverCalled(op, env_ok, result) ==
    /\ pc = "archiver_alone"
    /\ archiver_call.calls < MaxCalls
    /\ archiver_obj' = result.obj
    /\ containers' = result.containers
    /\ archiver_call' = [op |-> op, outcome |-> result.outcome, env_ok |-> env_ok,
                         calls |-> archiver_call.calls + 1,
                         before |-> archiver_obj, containers_before |-> containers]
    /\ UNCHANGED <<config, env, boot, archivers, alias_call, db, threads, ds_call,
                   hash_call, pc, store, elements, calls, collect_task, archive_task,
                   uniques>>

ObjProvide ==
    \E created \in BOOLEAN :
        ArchiverCalled("provide", created,
            IF archiver_obj.kind = "ZipArchiver"
            THEN ZipArchiver_provide(archiver_obj, containers, created)
            ELSE AFF4Archiver_provide(archiver_obj, containers, created))

ObjStoreFile ==
    \E name \in StoreNames, written \in BOOLEAN :
        ArchiverCalled("store_file", written,
            IF archiver_obj.kind = "ZipArchiver"
            THEN ZipArchiver_store_file(archiver_obj, containers, <<name>>, written)
            ELSE AFF4Archiver_store_file(archiver_obj, containers, <<name>>, written))

ObjClose ==
    ArchiverCalled("close", TRUE,
        IF archiver_obj.kind = "ZipArchiver"
        THEN ZipArchiver_close(archiver_obj, containers)
        ELSE AFF4Archiver_close(archiver_obj, containers))

NextArchiver == ObjProvide \/ ObjStoreFile \/ ObjClose

SpecArchiver == InitArchiver /\ [][NextArchiver]_vars

(* ------------- the worker pool with more devices than workers ---------- *)

\* the devices of a run that has one device more than the largest pool
\* has workers
PoolDevices == 1..(MaxThreads + 1)

InitPool ==
    /\ options \in {[DefaultOptions EXCEPT !.collect = c, !.create_archive = a,
                        !.number_threads = n] :
                    c \in BOOLEAN, a \in BOOLEAN, n \in 2..MaxThreads}
    /\ platform = "Windows"
    /\ raw_readable = TRUE
    /\ cluster = [d \in PoolDevices |-> 0]
    /\ pc = "main"
    /\ store = NewStore(1000)
    /\ elements = EmptyBag
    /\ calls = NoCalls
    /\ collect_task = [d \in PoolDevices |-> NoCollectTask]
    /\ archive_task = [d \in PoolDevices |-> NoArchiveTask]
    /\ uniques = NoUniques
    /\ env = ValidEnv
    /\ boot = Booted
    /\ archivers = (Prototype :> NewArchiver)
    /\ alias_call = NoAliasCall
    /\ db = NewDb
    /\ threads = [d \in DeviceIds |-> NoThread]
    /\ AloneIdle

\* deduplication_pipeline over the devices PoolDevices
NextPool ==
    \/ PipelineOpen
    \/ PoolCollectSubmit
    \/ \E d \in PoolDevices : PoolCollectStart(d)
    \/ \E d \in PoolDevices : CollectorVisit(d)
    \/ PoolCollectJoin
    \/ PoolArchiveSubmit
    \/ \E d \in PoolDevices : PoolArchiveStart(d)
    \/ \E d \in PoolDevices : ArchiverProvide(d)
    \/ \E d \in PoolDevices : ArchiverStoreFile(d)
    \/ \E d \in PoolDevices : ArchiverClose(d)
    \/ PoolArchiveJoin
    \/ PipelineClose
    \/ \E d \in PoolDevices : ArchiverUniques(d)

SpecPool == InitPool /\ [][NextPool]_vars

\* the threads of the process are scheduled: as long as the coordinator or
\* a worker has a step to take, one of them takes a step
FairSpecPool == SpecPool /\ WF_vars(NextPool)

(* ---------------------- a SQLite3DataStore on its own ------------------ *)

\* the state a call finds or leaves: the store object, its connection and
\* the rows of the table as the connection sees them
Snapshot(st, conn, els) == [store |-> st, db |-> conn, elements |-> els]

\* db_connection.rollback(): the transaction is over, the rows on disk
\* are as they were
ConnRollback(conn) == [conn EXCEPT !.txn = "none"]

\* an open that connects whatever db_connection holds
SQLite3DataStore_open_reconnecting(st, conn, els) ==
    [store |-> [st EXCEPT !.db_connection = "open"],
     db |-> ConnBegin(ConnRollback(conn)), elements |-> conn.disk, outcome |-> "ok"]

\* SQLite3DataStore.open: nothing when db_connection is set; else
\* db_connection = connect(...), which creates the database file when there
\* is none.  A database that was missing (or force_create_db) gets the setup
\* script when a create flag is set; without one the connection is closed,
\* db_connection keeps naming it, and RuntimeError is raised.  Then BEGIN
\* TRANSACTION; the connection sees the rows on disk
SQLite3DataStore_open(st, conn, els) ==
    IF st.db_connection # "None"
    THEN [store |-> st, db |-> conn, elements |-> els, outcome |-> "ok"]
    ELSE IF st.force_create_db \/ ~conn.exists
    THEN IF st.force_create_db \/ st.create_db
         THEN [store |-> [st EXCEPT !.db_connection = "open"],
               db |-> ConnBegin([conn EXCEPT !.exists = TRUE, !.disk = EmptyBag]),
               elements |-> EmptyBag, outcome |-> "ok"]
         ELSE [store |-> [st EXCEPT !.db_connection = "closed"],
               db |-> [conn EXCEPT !.exists = TRUE],
               elements |-> els, outcome |-> "RuntimeError"]
    ELSE [store |-> [st EXCEPT !.db_connection = "open"],
          db |-> ConnBegin(conn), elements |-> conn.disk, outcome |-> "ok"]

\* SQLite3DataStore.store_entry run by one thread: INSERT, the counter,
\* and at the threshold commit and BEGIN TRANSACTION.  With db_connection
\* None, None.execute raises AttributeError; a closed connection raises
\* sqlite3.ProgrammingError
SQLite3DataStore_store_entry(st, conn, els, row) ==
    IF st.db_connection = "None"
    THEN [store |-> st, db |-> conn, elements |-> els, outcome |-> "AttributeError"]
    ELSE IF st.db_connection = "closed"
    THEN [store |-> st, db |-> conn, elements |-> els, outcome |-> "ProgrammingError"]
    ELSE LET stored == store_entry(st, els, row) IN
         [store |-> stored.store,
          db |-> IF st.current_data_runner + 1 >= st.write_data_threshold
                 THEN ConnBegin(ConnCommit(conn, stored.elements))
                 ELSE ConnBegin(conn),
          elements |-> stored.elements, outcome |-> "ok"]

\* SQLite3DataStore.close: commit, close the connection; commit on a
\* closed connection raises sqlite3.ProgrammingError
SQLite3DataStore_close(st, conn, els) ==
    IF st.db_connection = "None"
    THEN [store |-> st, db |-> conn, elements |-> els, outcome |-> "RuntimeWarning"]
    ELSE IF st.db_connection = "closed"
    THEN [store |-> st, db |-> conn, elements |-> els, outcome |-> "ProgrammingError"]
    ELSE [store |-> [st EXCEPT !.db_connection = "None"],
          db |-> ConnCommit(conn, els), elements |-> els, outcome |-> "ok"]

\* an abort that commits
SQLite3DataStore_abort_committing(st, conn, els) ==
    IF st.db_connection = "None"
    THEN [store |-> st, db |-> conn, elements |-> els, outcome |-> "RuntimeWarning"]
    ELSE [store |-> [st EXCEPT !.db_connection = "None"],
          db |-> ConnCommit(conn, els), elements |-> els, outcome |-> "ok"]

\* SQLite3DataStore.abort: rollback, close the connection; rollback on a
\* closed connection raises sqlite3.ProgrammingError
SQLite3DataStore_abort(st, conn, els) ==
    IF st.db_connection = "None"
    THEN [store |-> st, db |-> conn, elements |-> els, outcome |-> "RuntimeWarning"]
    ELSE IF st.db_connection = "closed"
    THEN [store |-> st, db |-> conn, elements |-> els, outcome |-> "ProgrammingError"]
    ELSE [store |-> [st EXCEPT !.db_connection = "None"],
          db |-> ConnRollback(conn), elements |-> conn.disk, outcome |-> "ok"]

InitDs ==
    /\ options = DefaultOptions
    /\ platform = "Linux"
    /\ raw_readable = TRUE
    /\ cluster = DeviceClusters
    /\ pc = "store_alone"
    /\ store \in {[NewStore(w) EXCEPT !.create_db = c] :
                     w \in 1..MaxThreshold, c \in BOOLEAN}
    /\ elements = EmptyBag
    /\ calls = NoCalls
    /\ collect_task = [d \in DeviceIds |-> NoCollectTask]
    /\ archive_task = [d \in DeviceIds |-> NoArchiveTask]
    /\ uniques = NoUniques
    /\ env = ValidEnv
    /\ boot = Booted
    /\ archivers = (Prototype :> NewArchiver)
    /\ alias_call = NoAliasCall
    /\ db \in {[NewDb EXCEPT !.exists = e] : e \in BOOLEAN}
    /\ threads = [d \in DeviceIds |-> NoThread]
    /\ AloneIdle

\* a call on the store: its result becomes the state; the call is
\* recorded with the state it found and the rows appended so far, those a
\* threshold flush or a close has committed (flushed) and those appended
\* since (pending)
DsCalled(op, result, flushed, pending) ==
    /\ pc = "store_alone"
    /\ ds_call.calls < MaxCalls
    /\ store' = result.store
    /\ db' = result.db
    /\ elements' = result.elements
    /\ ds_call' = [op |-> op, outcome |-> result.outcome, calls |-> ds_call.calls + 1,
                   before |-> Snapshot(store, db, elements),
                   flushed |-> flushed, pending |-> pending]
    /\ UNCHANGED <<config, env, boot, archivers, alias_call, threads, archiver_obj,
                   containers, archiver_call, hash_call, pc, calls, collect_task,
                   archive_task, uniques>>

DsOpen ==
    DsCalled("open", SQLite3DataStore_open(store, db, elements), ds_call.flushed,
             IF store.db_connection = "None" THEN EmptyBag ELSE ds_call.pending)

DsStoreEntry(name) ==
    /\ BagCardinality(elements) < MaxRows
    /\ LET row == Entry(NewHash(1) \o <<name>>, None, None, 1,
                        MountPath(1) \o <<47, name>>, EmptyBytes)
           appended == ds_call.pending (+) SetToBag({row})
       IN DsCalled("store_entry", SQLite3DataStore_store_entry(store, db, elements, row),
             IF store.db_connection # "open" THEN ds_call.flushed
             ELSE IF store.current_data_runner + 1 >= store.write_data_threshold
             THEN ds_call.flushed (+) appended ELSE ds_call.flushed,
             IF store.db_connection # "open" THEN ds_call.pending
             ELSE IF store.current_data_runner + 1 >= store.write_data_threshold
             THEN EmptyBag ELSE appended)

DsClose ==
    DsCalled("close", SQLite3DataStore_close(store, db, elements),
             IF store.db_connection # "open" THEN ds_call.flushed
             ELSE ds_call.flushed (+) ds_call.pending,
             IF store.db_connection # "open" THEN ds_call.pending ELSE EmptyBag)

DsAbort ==
    DsCalled("abort", SQLite3DataStore_abort(store, db, elements),
             ds_call.flushed, ds_call.pending)

NextDs ==
    \/ DsOpen
    \/ \E name \in StoreNames : DsStoreEntry(name)
    \/ DsClose
    \/ DsAbort

SpecDs == InitDs /\ [][NextDs]_vars

(* ----------------------- calculate_file_hashes on its own -------------- *)

\* the file contents and positive chunk sizes a hash call draws from
HashContents == UNION {[1..n -> {0, 1}] : n \in 0..MaxLen}
HashChunkSizes == 1..MaxLen

InitHash ==
    /\ options \in {[DefaultOptions EXCEPT !.enable_sha1 = a, !.enable_sha256 = b,
                        !.enable_md5 = c] :
                    a \in BOOLEAN, b \in BOOLEAN, c \in BOOLEAN}
    /\ platform = "Linux"
    /\ raw_readable = TRUE
    /\ cluster = DeviceClusters
    /\ pc = "hash_alone"
    /\ store = NewStore(1000)
    /\ elements = EmptyBag
    /\ calls = NoCalls
    /\ collect_task = [d \in DeviceIds |-> NoCollectTask]
    /\ archive_task = [d \in DeviceIds |-> NoArchiveTask]
    /\ uniques = NoUniques
    /\ env = ValidEnv
    /\ boot = Booted
    /\ archivers = (Prototype :> NewArchiver)
    /\ alias_call = NoAliasCall
    /\ db = NewDb
    /\ threads = [d \in DeviceIds |-> NoThread]
    /\ archiver_obj = NewArchiverObject("ZipArchiver")
    /\ containers = <<>>
    /\ archiver_call = NoArchiverCall
    /\ ds_call = NoDsCall
    /\ hash_call \in {[NoHashCall EXCEPT !.content = f, !.c1 = c1, !.c2 = c2] :
                          f \in HashContents, c1 \in HashChunkSizes, c2 \in HashChunkSizes}

\* the file is hashed twice, each time with fresh digest objects, once
\* with read_chunk_size c1 and once with c2
HashCall ==
    /\ pc = "hash_alone"
    /\ ~hash_call.called
    /\ hash_call' = [hash_call EXCEPT
          !.digests1 = calculate_file_hashes(hash_call.content,
                            map_options_to_digests(options), hash_call.c1),
          !.digests2 = calculate_file_hashes(hash_call.content,
                            map_options_to_digests(options), hash_call.c2),
          !.called = TRUE]
    /\ UNCHANGED <<config, env, boot, archivers, alias_call, db, threads, archiver_obj,
                   containers, archiver_call, ds_call, pc, store, elements, calls,
                   collect_task, archive_task, uniques>>

NextHash == HashCall

SpecHash == InitHash /\ [][NextHash]_vars

(* ------------------------------- claims ------------------------------- *)

\* an archiver task of device d has begun (provide, get_uniques_for_device
\* and store_file all come after)
ArchiverBegun(d) == archive_task[d].state \notin {"none", "pending"}

\* the content-hash identity of a row: its digest columns
ContentHash(r) == <<r.sha1, r.sha256, r.md5>>

RowsOf(d) == {r \in BagToSet(elements) : r.deviceid = d}

\* the number of rows of the table with this device and path
RECURSIVE SumCopies(_)
SumCopies(S) ==
    IF S = {} THEN 0
    ELSE LET r == CHOOSE x \in S : TRUE
         IN CopiesIn(r, elements) + SumCopies(S \ {r})
StoredCopies(d, file_path) == SumCopies({r \in RowsOf(d) : r.path = file_path})

\* C1: phase barrier.  In both pipelines, whenever an archiver task of any
\* device has begun, the collector of every device has returned (or, with
\* the collect phase skipped, none is ever invoked): no collector is
\* pending, running or failed while an archiver acts.
C1_PhaseBarrier ==
    (\E d \in DeviceIds : ArchiverBegun(d)) =>
        \/ \A d \in DeviceIds : collect_task[d].state = "done"
        \/ \A d \in DeviceIds : collect_task[d].state = "none"

\* C1 witness: in the worker-pool pipeline an archiver has stored a file
\* after the collectors ran
C1_Witness ==
    /\ ~Single /\ options.collect
    /\ \E d \in DeviceIds : archive_task[d].members # <<>>
    /\ \E d \in DeviceIds : archive_task[d].state = "running"

\* C2: on a fatal run (a task raised and the pipeline unwound) the store
\* has received exactly one open, no close and exactly one abort.
C2_AbortOnFatal ==
    pc = "crashed" => calls.open = 1 /\ calls.close = 0 /\ calls.abort = 1

\* C3: on a successful run the store has received exactly one open, before
\* every store_entry and get_uniques_for_device call, exactly one close,
\* after all of them, and no abort.
C3_OpenCloseOnSuccess ==
    pc = "finished" =>
        /\ calls.open = 1 /\ calls.close = 1 /\ calls.abort = 0
        /\ calls.early = 0 /\ calls.late = 0
        /\ store.db_connection = "None"

\* C3 witness: a finished run that stored entries and archived a file
C3_Witness ==
    /\ pc = "finished"
    /\ elements # EmptyBag
    /\ \E d \in DeviceIds : archive_task[d].members # <<>>

\* C4: with options.collect false no collector is invoked and no entry is
\* appended, under either scheduling model.
C4_NoCollectWhenDisabled ==
    ~options.collect =>
        /\ \A d \in DeviceIds : collect_task[d].state = "none"
        /\ elements = EmptyBag

\* C5: with options.create_archive false no archiver task runs, under
\* either scheduling model.
C5_NoArchiveWhenDisabled ==
    ~options.create_archive =>
        \A d \in DeviceIds : archive_task[d] = NoArchiveTask

\* C6: get_uniques_for_device(d) yields exactly one path per content-hash
\* group of the entries of device d, the smallest path of the group.
C6_UniqueRepresentative ==
    uniques.device # 0 =>
        LET rows == RowsOf(uniques.device)
            groups == {{q \in rows : ContentHash(q) = ContentHash(r)} : r \in rows}
            rep(g) == MinPath({q.path : q \in g})
            y == uniques.yielded
        IN /\ Len(y) = Cardinality(groups)
           /\ \A k \in 1..Len(y) : \E g \in groups : y[k][1] = rep(g)
           /\ \A g \in groups :
                Cardinality({k \in 1..Len(y) : y[k][1] = rep(g)})
                    = Cardinality({h \in groups : rep(h) = rep(g)})

\* C7: get_uniques_for_device(d) yields only paths of entries of device d,
\* and for content stored on d and on another device the uniques of d hold
\* the path of an entry of d with that content.
C7_NoCrossDeviceDedup ==
    uniques.device # 0 =>
        LET rows == RowsOf(uniques.device)
            y == uniques.yielded
        IN /\ \A k \in 1..Len(y) : \E r \in rows : r.path = y[k][1]
           /\ \A r \in rows :
                (\E o \in BagToSet(elements) :
                    o.deviceid # uniques.device /\ ContentHash(o) = ContentHash(r))
                => \E k \in 1..Len(y) : \E q \in rows :
                      q.path = y[k][1] /\ ContentHash(q) = ContentHash(r)

\* C8: every regular file the walk of a device has visited without an error
\* has exactly one entry with its path and the device's id; a file the walk
\* has not passed, and an entry that is no regular file, has none.
C8_OneEntryPerFile ==
    \A d \in DeviceIds : \A i \in 1..Len(Listing(d)) :
        StoredCopies(d, Listing(d)[i].path)
            = IF Listing(d)[i].isfile /\ i <= collect_task[d].idx THEN 1 ELSE 0

\* C8 witness: a collector has returned after storing all its regular files
C8_Witness ==
    \E d \in DeviceIds :
        /\ collect_task[d].state = "done"
        /\ \A i \in 1..Len(Listing(d)) :
              Listing(d)[i].isfile => StoredCopies(d, Listing(d)[i].path) = 1

\* C9: a per-file open error is soft: it never makes a collector fail.
C9_OpenErrorIsSoft ==
    \A d \in DeviceIds :
        ~(collect_task[d].state = "failed" /\ collect_task[d].cause = "open")

\* C10: with options.store_slack_space false every stored entry has empty
\* slack, on every platform and for every cluster size.
C10_NoSlackWhenDisabled ==
    ~options.store_slack_space =>
        \A r \in BagToSet(elements) : r.fileslack = EmptyBytes

\* C11: the slack reader never propagates an error: no collector fails
\* because a step of read_file_slack (get_slack_block, or opening, seeking
\* or reading the block device) raised; it gets bytes() and goes on to
\* store_entry for that file.
C11_SlackReaderNeverRaises ==
    \A d \in DeviceIds :
        ~(collect_task[d].state = "failed" /\ collect_task[d].cause = "slack")

\* main has passed the validation of this name
Passed(name) == \E k \in 1..Len(boot.validated) : boot.validated[k] = name

\* an archive container has been created
ContainerCreated == \E o \in DOMAIN archivers : archivers[o].zip_file_ptr # "None"

\* a configuration one of the four validations objects to
ConfigurationRejected ==
    \/ ~env.datastore_valid
    \/ ~env.archsvc_valid
    \/ options.create_archive /\ env.archive_location \in {"unset", "missing"}
    \/ \E d \in DeviceIds : ~env.mounts[d] \/ cluster[d] < 0

\* C12: pre-flight validation.  For a configuration that validate_data_store,
\* validate_archiver, validate_options or validate_devices rejects, the run
\* never gets past main's validations: store.open() is never called and no
\* archive container is ever created.
C12_PreflightBeforeSideEffects ==
    ConfigurationRejected =>
        /\ pc \in {"configured", "validate", "exited", "crashed"}
        /\ calls.open = 0 /\ store.db_connection = "None"
        /\ ~ContainerCreated

\* C12 witness: validate_options has ended the run of a configuration the
\* two validations before it accepted
C12_Witness ==
    /\ pc = "exited" /\ boot.failed = "options"
    /\ Passed("data_store") /\ Passed("archiver")

\* C13: I4.  Whenever main has opened a file (the log file update_logger
\* creates under archive_location), validate_options has checked
\* archive_location before.
C13_ValidateBeforeAnyOpen ==
    boot.log_file = "opened" => Passed("options")

\* C14: validate_options lets a configuration with create_archive pass only
\* if archive_location names an existing directory; unset, missing or not a
\* directory, it ends the run.
C14_ArchiveLocationIsDirectory ==
    (Passed("options") /\ options.create_archive) => env.archive_location = "dir"

C16_AliasIsRelativePath ==
    alias_call.called =>
        /\ PathJoin(alias_call.device_sourcepath, alias_call.alias)
              = alias_call.target_path
        /\ ~(\E k \in 0..Len(alias_call.alias) :
                SubSeq(alias_call.alias, 1, k) = alias_call.device_sourcepath)

\* C17: per-device isolation.  In both pipelines no archiver object receives
\* provide, store_file or close calls from the archive tasks of more than
\* one device, and the configured archiver is never opened and never called.
C17_ArchiverPerDevice ==
    /\ \A o \in DOMAIN archivers : Cardinality(archivers[o].users) <= 1
    /\ archivers[Prototype] = NewArchiver

\* C17 witness: two archive tasks have each stored a member into their
\* own container
C17_Witness ==
    \E d, e \in DeviceIds :
        /\ d # e
        /\ archive_task[d].members # <<>> /\ archive_task[e].members # <<>>
        /\ archive_task[d].service # archive_task[e].service
        /\ archivers[archive_task[d].service].zip_file_ptr # "None"
        /\ archivers[archive_task[e].service].zip_file_ptr # "None"

\* C19: archive-fatal isolation.  When the failure of a device's archive
\* task has surfaced, the archive task of every other device has run to
\* its end, under both pipelines.
C19_ArchiveFailureIsolated ==
    (pc = "crashed" /\ \E d \in DeviceIds : archive_task[d].state = "failed") =>
        \A e \in DeviceIds : archive_task[e].state \in {"done", "failed"}

\* C20: if the collector of any device has failed, the archive phase is not
\* started for any device: no archiver task has begun (no provide, no
\* store_file), in either pipeline.
C20_NoArchiveAfterCollectorFailure ==
    (\E d \in DeviceIds : collect_task[d].state = "failed") =>
        /\ \A e \in DeviceIds : archive_task[e] = NoArchiveTask
        /\ ~ContainerCreated

\* C20 witness: the worker-pool pipeline has ended at get() after the
\* collector of one device failed and the collector of another returned
C20_Witness ==
    /\ ~Single /\ pc = "crashed"
    /\ \E d \in DeviceIds : collect_task[d].state = "failed"
    /\ \E d \in DeviceIds : collect_task[d].state = "done"

\* the rows of the calls of store_entry that returned
ReturnedRows ==
    {CollectorRow(t, i) : t \in DeviceIds, i \in 1..MaxFiles} \cap
    UNION {{CollectorRow(t, i) : i \in 1..threads[t].returned} : t \in DeviceIds}

\* C18: concurrent store_entry is safe and durable.  Whatever the
\* interleaving of the collectors, once all of them have returned and
\* close() has completed the database holds exactly one row for every
\* store_entry call that returned: none lost, none twice, none else.
C18_ConcurrentStoreDurable ==
    pc = "finished" =>
        /\ \A t \in DeviceIds : threads[t].returned = MaxFiles
        /\ BagToSet(db.disk) = ReturnedRows
        /\ \A r \in ReturnedRows : CopiesIn(r, db.disk) = 1

\* C18 witness: the run has closed the store after collectors ran
\* interleaved and a batch was committed on the way
C18_Witness ==
    /\ pc = "finished"
    /\ store.write_data_threshold <= MaxThreshold
    /\ \A t \in DeviceIds : threads[t].returned = MaxFiles
    /\ BagCardinality(db.disk) = NumDevices * MaxFiles

\* C21: store-duplicate.  A second store_entry with the same content
\* tuple, device_id and file_path is skipped: the table never holds more
\* than one row for an entry.
C21_DuplicateSkipped ==
    \A r \in BagToSet(elements) : CopiesIn(r, elements) = 1

\* the archiver is in the state closed of the FileArchiver state machine:
\* never provided, or provided and closed
InStateClosed(obj, cs) ==
    IF obj.kind = "ZipArchiver" THEN obj.zip_file_ptr \in {"None", "closed"}
    ELSE obj.aff4root = "None"

\* C22: ZipArchiver.provide on an archiver that is open raises and leaves
\* the archiver and its open container as they were; provide on a
\* never-opened archiver (the container can be created) succeeds and the
\* archiver is open with a new container.
C22_ProvideOnlyWhenClosed ==
    (archiver_call.op = "provide" /\ archiver_obj.kind = "ZipArchiver") =>
        /\ archiver_call.before.zip_file_ptr = "open" =>
              /\ archiver_call.outcome \notin {"ok", "none"}
              /\ archiver_obj = archiver_call.before
              /\ containers = archiver_call.containers_before
        /\ (archiver_call.before.zip_file_ptr = "None" /\ archiver_call.env_ok) =>
              /\ archiver_call.outcome = "ok"
              /\ archiver_obj.zip_file_ptr = "open"
              /\ containers = Append(archiver_call.containers_before, NewContainer)

\* C22 witness: provide has been called on a ZipArchiver whose open
\* container holds a member
C22_Witness ==
    /\ archiver_call.op = "provide" /\ archiver_obj.kind = "ZipArchiver"
    /\ archiver_call.before.zip_file_ptr = "open"
    /\ archiver_call.containers_before # <<>>
    /\ archiver_call.containers_before[1].members # <<>>

\* C23: store_file on an archiver in state closed (never provided, or
\* provided and then closed) is rejected by the archiver's own check, the
\* error it raises itself, and nothing is written.
C23_StoreFileWhenClosedRejected ==
    (archiver_call.op = "store_file"
        /\ InStateClosed(archiver_call.before, archiver_call.containers_before)) =>
        /\ archiver_call.outcome \in {"RuntimeWarning", "RuntimeError"}
        /\ containers = archiver_call.containers_before

\* C24: the state machine is a cycle.  provide on a ZipArchiver that was
\* provided and closed (the container can be created) succeeds and opens
\* a new container.
C24_ProvideAfterClose ==
    (archiver_call.op = "provide" /\ archiver_obj.kind = "ZipArchiver"
        /\ archiver_call.before.zip_file_ptr = "closed" /\ archiver_call.env_ok) =>
        /\ archiver_call.outcome = "ok"
        /\ archiver_obj.zip_file_ptr = "open"
        /\ containers = Append(archiver_call.containers_before, NewContainer)

\* a result of the uniques query in ascending lexicographic order of PATH
Ascending(y) == \A k \in 1..(Len(y) - 1) : ~LexLess(y[k + 1][1], y[k][1])

C26_ChunkSizeIrrelevant ==
    uniques.device # 0 =>
        uniques.yielded = query_unique_elements(elements, uniques.device)

\* C26 witness: an invocation with a positive chunk_size has yielded more
\* rows than one batch holds
C26_Witness ==
    /\ uniques.device # 0
    /\ uniques.chunk_size > 0
    /\ Len(uniques.yielded) > uniques.chunk_size

\* the digest triple of the byte sequence bytes under the selection of o
DigestsOf(o, bytes) ==
    <<IF o.enable_sha1 THEN NewHash(1) \o bytes ELSE None,
      IF o.enable_sha256 THEN NewHash(256) \o bytes ELSE None,
      IF o.enable_md5 THEN NewHash(5) \o bytes ELSE None>>

\* C27: P3, chunk-size irrelevance.  For any file content and any two
\* positive chunk sizes calculate_file_hashes returns equal digest triples,
\* each the digest of the whole content: the chunks fed to the digest
\* objects concatenate to the file.
C27_ChunkSizeIrrelevance ==
    hash_call.called =>
        /\ hash_call.digests1 = hash_call.digests2
        /\ hash_call.digests1 = DigestsOf(options, hash_call.content)

\* C27 witness: a file longer than either chunk size has been hashed with
\* two different chunk sizes and a digest selected
C27_Witness ==
    /\ hash_call.called
    /\ hash_call.c1 # hash_call.c2
    /\ Len(hash_call.content) > hash_call.c1
    /\ Len(hash_call.content) > hash_call.c2
    /\ hash_call.digests1[1] # None

\* C28: open() on a store that is open returns with the store as it was:
\* the connection is not replaced, no transaction is begun and the pending
\* inserts are still there.
C28_OpenIdempotent ==
    (ds_call.op = "open" /\ ds_call.before.store.db_connection = "open") =>
        /\ ds_call.outcome = "ok"
        /\ store = ds_call.before.store
        /\ db = ds_call.before.db
        /\ elements = ds_call.before.elements

\* C28 witness: open() has been called on an open store that holds
\* inserts not yet committed
C28_Witness ==
    /\ ds_call.op = "open" /\ ds_call.before.store.db_connection = "open"
    /\ ds_call.pending # EmptyBag
    /\ ds_call.before.elements # ds_call.before.db.disk

\* C29: after abort() on an open store the entries appended since the
\* most recent batch flush are gone, and the entries the earlier threshold
\* flushes committed are stored: the table on disk holds exactly those.
C29_AbortDiscardsPending ==
    (ds_call.op = "abort" /\ ds_call.before.store.db_connection = "open") =>
        /\ ds_call.outcome = "ok"
        /\ store.db_connection = "None"
        /\ db.disk = ds_call.flushed
        /\ elements = ds_call.flushed

\* C29 witness: a store that had flushed a batch and appended since has
\* been aborted
C29_Witness ==
    /\ ds_call.op = "abort" /\ ds_call.before.store.db_connection = "open"
    /\ ds_call.flushed # EmptyBag
    /\ ds_call.pending # EmptyBag

\* C30: fresh digest state per file.  Every stored entry of a collector's
\* walk, the first and the later ones, carries the digest triple of its
\* own file's bytes under the digest selection, and of nothing else.
C30_FreshDigestPerFile ==
    \A r \in BagToSet(elements) :
        \E i \in 1..Len(Listing(r.deviceid)) :
            /\ Listing(r.deviceid)[i].path = r.path
            /\ <<r.sha1, r.sha256, r.md5>>
                  = DigestsOf(options, Listing(r.deviceid)[i].content)

\* C30 witness: a collector has stored two files with a digest selected,
\* and the collector of another device has stored one
C30_Witness ==
    \E r \in BagToSet(elements), q \in BagToSet(elements), o \in BagToSet(elements) :
        /\ r.deviceid = q.deviceid /\ r.path # q.path
        /\ o.deviceid # r.deviceid
        /\ r.sha1 # None /\ q.sha1 # None

\* C31: the store's flush is atomic with respect to concurrent inserts.
\* No INSERT of another collector runs on the connection between the
\* commit and the BEGIN TRANSACTION of a flush: a collector that has
\* committed finds no transaction active, and no flush fails.
C31_FlushAtomic ==
    \A t \in DeviceIds :
        /\ threads[t].pc = "committed" => db.txn = "none"
        /\ threads[t].pc # "raised"

\* C32: batch counter bounds.  write_data_threshold is at least 1 from
\* construction on, and when a store_entry call returns, under any
\* interleaving, 0 <= current_data_runner < write_data_threshold.
C32_CounterBounds ==
    [][/\ store'.write_data_threshold >= 1
       /\ (\E t \in DeviceIds : threads'[t].returned > threads[t].returned)
             => /\ 0 <= store'.current_data_runner
                /\ store'.current_data_runner < store'.write_data_threshold]_vars

\* the tasks of a phase a worker has taken and not yet ended
Executing(tasks) ==
    {d \in DOMAIN tasks : tasks[d].state \in {"running", "provided", "storing"}}

\* the tasks of a phase that have returned or raised
Ended(tasks) == {d \in DOMAIN tasks : tasks[d].state \in {"done", "failed"}}

\* C33: worker-pool scheduling.  A phase submits one task for every
\* configured device, never more than number_threads tasks of a phase are
\* executing, and the coordinator is past a phase only when every task
\* submitted in it has ended.
C33_PoolScheduling ==
    /\ pc = "collect_join" => \A d \in PoolDevices : collect_task[d].state # "none"
    /\ pc = "archive_join" => \A d \in PoolDevices : archive_task[d].state # "none"
    /\ Cardinality(Executing(collect_task)) <= options.number_threads
    /\ Cardinality(Executing(archive_task)) <= options.number_threads
    /\ (pc \in {"archive", "archive_join", "close", "finished", "crashed"}
            /\ options.collect) => Ended(collect_task) = PoolDevices
    /\ (pc \in {"close", "finished"} /\ options.create_archive)
            => Ended(archive_task) = PoolDevices
    /\ (pc = "crashed" /\ \E d \in PoolDevices : archive_task[d].state # "none")
            => Ended(archive_task) = PoolDevices

\* C33 witness: every worker of the archive pool executes a task while a
\* task of another device waits, the collect phase being over
C33_Witness ==
    /\ Cardinality(Executing(archive_task)) = options.number_threads
    /\ \E d \in PoolDevices : archive_task[d].state = "pending"
    /\ Ended(collect_task) = PoolDevices

\* a task of the run has raised
PoolFailure ==
    \E d \in PoolDevices :
        collect_task[d].state = "failed" \/ archive_task[d].state = "failed"

\* every task of the enabled phases has completed and the coordinator has
\* called data_store.close()
PoolCompleted ==
    /\ pc = "finished"
    /\ calls.close = 1
    /\ options.collect => \A d \in PoolDevices : collect_task[d].state = "done"
    /\ options.create_archive => \A d \in PoolDevices : archive_task[d].state = "done"

\* C34: termination of the worker-pool pipeline.  Whatever the number of
\* devices and of threads (also fewer threads than devices), a run in
\* which no collector and no archiver raises completes the collect task
\* and the archive task of every device and calls the store's close().
C34_Termination == <>(PoolFailure \/ PoolCompleted)

\* C34 witness: a run with fewer threads than devices and both phases
\* enabled has completed
C34_Witness ==
    /\ PoolCompleted
    /\ options.collect /\ options.create_archive
    /\ options.number_threads < Cardinality(PoolDevices)
    /\ ~PoolFailure

\* the paths get_uniques_for_device yields for device d on the entries stored
Representatives(d) ==
    LET rows == get_uniques_for_device(elements, d, options.unique_elements_chunk_size)
    IN [k \in 1..Len(rows) |-> rows[k][1]]

\* n calls of store_file
StoreFiles(n) == [k \in 1..n |-> "store_file"]

\* the paths the task of device d has passed to store_file, in call order
Stored(d) == [k \in 1..Len(archive_task[d].members) |-> archive_task[d].members[k].source]

\* C35: the calls an archiver task makes on its archive service.  A task
\* that has not raised has called provide once; then store_file once per
\* representative path of its device, in the order the store yields them;
\* then, once, close.  A device without entries gets provide and close: a
\* container named archive-<device_id>-<timestamp> without members.
C35_ArchiveCallSequence ==
    \A d \in DOMAIN archive_task :
        LET t == archive_task[d] IN
        /\ t.state \in {"none", "pending", "running"} => t.log = <<>>
        /\ t.state = "provided" => t.log = <<"provide">> /\ t.members = <<>>
        /\ t.state = "storing" =>
              /\ t.log = <<"provide">> \o StoreFiles(Len(t.members))
              /\ Stored(d) \o t.todo = Representatives(d)
        /\ t.state = "done" =>
              /\ t.log = <<"provide">> \o StoreFiles(Len(t.members)) \o <<"close">>
              /\ Stored(d) = Representatives(d)
        /\ t.state \in {"provided", "storing", "done"} =>
              /\ t.name[1] = "archive" /\ t.name[2] = d /\ Len(t.name) = 3
              /\ archivers[t.service].zip_file_ptr = IF t.state = "done" THEN "closed" ELSE "open"

\* C35 witness: an archiver has completed a container with two members
C35_Witness ==
    \E d \in DOMAIN archive_task :
        /\ archive_task[d].state = "done"
        /\ archive_task[d].log = <<"provide", "store_file", "store_file", "close">>
        /\ archive_task[d].name = archive_name(d, "%Y-%m-%d-%H-%M-%S")
        /\ Len(Representatives(d)) = 2

\* C36: guaranteed release of the archive container.  When an archiver
\* task is over, by returning or by raising, the container its provide
\* opened has been closed.
C36_ContainerReleased ==
    \A d \in DOMAIN archive_task :
        (archive_task[d].state \in {"done", "failed"} /\ archive_task[d].name # None)
            => archivers[archive_task[d].service].zip_file_ptr = "closed"

\* the inserts executed on the connection since its last commit
PendingInserts == BagCardinality(elements (-) db.disk)

\* C37: the batching counter counts the pending inserts.  While the store is
\* open and no store_entry call is in progress, current_data_runner is the
\* number of inserts executed since the last commit on the connection.
C37_CounterIsPending ==
    (store.db_connection = "open" /\ \A t \in DOMAIN threads : threads[t].pc = "idle")
        => store.current_data_runner = PendingInserts

\* C38: a failed open leaves the store not open.  After open() raised for
\* a missing database without a create flag, db_connection is None; an
\* open() that returns normally leaves the store open, on whatever went
\* before; close() and abort() on a store that is not open raise the
\* RuntimeWarning that reports it closed.
C38_FailedOpenLeavesClosed ==
    /\ (ds_call.op = "open" /\ ds_call.outcome = "RuntimeError")
          => store.db_connection = "None"
    /\ (ds_call.op = "open" /\ ds_call.outcome = "ok")
          => store.db_connection = "open"
    /\ (ds_call.op \in {"close", "abort"} /\ ds_call.before.store.db_connection # "open")
          => ds_call.outcome = "RuntimeWarning"

\* C39: read chunk size 0.  calculate_file_hashes with chunk size 0 reads
\* nothing: every stored entry carries the digests of the empty input under
\* the digest selection, whatever its file holds, so the entries of a
\* device form one content-hash group and its uniques query yields one
\* path at most.
C39_ZeroChunkSingleGroup ==
    /\ \A r \in BagToSet(elements) : ContentHash(r) = DigestsOf(options, <<>>)
    /\ \A d \in DeviceIds :
        /\ Cardinality({GroupKey(r) : r \in RowsOf(d)}) <= 1
        /\ Len(Representatives(d)) <= 1
        /\ Len(archive_task[d].members) <= 1

\* C39 witness: the files of a device, of different contents, have been
\* stored and its archiver has completed a container with a single member
C39_Witness ==
    \E d \in DeviceIds :
        /\ options.hash_chunk_size = 0
        /\ {r.path : r \in RowsOf(d)}
              = {Listing(d)[i].path : i \in {k \in 1..Len(Listing(d)) : Listing(d)[k].isfile}}
        /\ \E i, j \in 1..Len(Listing(d)) :
              /\ Listing(d)[i].isfile /\ Listing(d)[j].isfile
              /\ Listing(d)[i].content # Listing(d)[j].content
        /\ archive_task[d].state = "done"
        /\ Len(archive_task[d].members) = 1

\* a task of the run that has been submitted or started and has not ended
TaskUnderWay ==
    \E d \in DOMAIN collect_task :
        \/ collect_task[d].state \in {"pending", "running"}
        \/ archive_task[d].state \in {"pending", "running", "provided", "storing"}

\* this step is a store_entry or a get_uniques_for_device call that the
\* store served
StoreServes ==
    \/ elements' # elements
    \/ \E d \in DOMAIN archive_task :
          archive_task[d].state = "provided" /\ archive_task'[d].state = "storing"

\* C40: tasks call the store while it is open.  In both pipelines every
\* store_entry and get_uniques_for_device call comes after the one open()
\* of the run and before its close(): open() is called before any task is
\* submitted, close() when no task is under way, and no call finds the
\* store closed.
C40_StoreCallsWhileOpen ==
    [][ /\ calls'.early = 0 /\ calls'.late = 0
        /\ StoreServes =>
              store.db_connection = "open" /\ calls.open = 1 /\ calls.close = 0
        /\ calls'.open # calls.open =>
              \A d \in DOMAIN collect_task :
                  collect_task[d].state = "none" /\ archive_task[d].state = "none"
        /\ calls'.close # calls.close => ~TaskUnderWay ]_vars

\* C40 witness: a worker-pool run in which the tasks of both phases called
\* the store has closed it
C40_Witness ==
    /\ options.number_threads > 1
    /\ calls.open = 1 /\ calls.close = 1
    /\ \A d \in DeviceIds :
          /\ collect_task[d].state = "done" /\ RowsOf(d) # {}
          /\ archive_task[d].state = "done" /\ archive_task[d].members # <<>>

====
